---- MODULE Spec2Model ----
(***************************************************************************)
(* Model of the MCP database servers servers/postgres_server.py (row       *)
(* store, SQLAlchemy) and servers/vertica_server.py (columnar store,       *)
(* vertica-python): the tools query, list_tables, describe_table and       *)
(* get_schema_relationships.  One tool invocation runs at a time; every    *)
(* driver call (connect, execute, fetch, probe) is one step whose outcome  *)
(* - a result or an exception - is chosen by the driver.                   *)
(*                                                                         *)
(* Text is a sequence of string tokens (an f-string is the sequence of its *)
(* literal parts and substituted values); a Python dict is a sequence of   *)
(* <<key, value>> pairs in insertion order with unique keys.               *)
(***************************************************************************)
EXTENDS Integers, Sequences, FiniteSets, TLC

\* ------------------------------------------------------------- bounds
MaxSqlLen == 2
MaxRows == 2
MaxTables == 2
MaxEdges == 2
MaxCount == 1
MaxConns == 2

\* ------------------------------------------------------------- values
Backends == {"postgres", "vertica"}
Tools == {"query", "list_tables", "describe_table", "get_schema_relationships"}
None == <<"None">>
Str(s) == <<"str", s>>
IntVal(n) == <<"int", n>>
NA == Str("N/A")
Null == <<"null">>

WS == {" ", "\n", "\t", "    "}
SqlChars == {" ", "x"}
Schemas == {"public", "s1"}
TableName(i) == "t" \o ToString(i)
TableNames == {TableName(i) : i \in 1..MaxTables}
ColNames == {"a", "b"}
CellValues == {"u", "v"}
TableRank(t) == CHOOSE i \in 1..MaxTables : TableName(i) = t
ColRank == [a |-> 1, b |-> 2]

SeqsUpTo(S, n) == UNION {[1..k -> S] : k \in 0..n}

\* ------------------------------------------------------------- str
RECURSIVE LStrip(_)
LStrip(s) == IF s # <<>> /\ Head(s) \in WS THEN LStrip(Tail(s)) ELSE s

RECURSIVE RStrip(_)
RStrip(s) ==
  IF s # <<>> /\ s[Len(s)] \in WS THEN RStrip(SubSeq(s, 1, Len(s) - 1)) ELSE s

\* str.strip()
Strip(s) == RStrip(LStrip(s))

\* ------------------------------------------------------------- dict
Keys(d) == [i \in DOMAIN d |-> d[i][1]]
HasKey(d, k) == \E i \in DOMAIN d : d[i][1] = k
DictGet(d, k) == d[CHOOSE i \in DOMAIN d : d[i][1] = k][2]

\* d[k] = v : an existing key keeps its position and takes the new value
DictSet(d, k, v) ==
  IF HasKey(d, k)
  THEN [i \in DOMAIN d |-> IF d[i][1] = k THEN <<k, v>> ELSE d[i]]
  ELSE Append(d, <<k, v>>)

RECURSIVE DictOfPairs(_)
DictOfPairs(ps) ==
  IF ps = <<>> THEN <<>>
  ELSE LET p == ps[Len(ps)]
       IN DictSet(DictOfPairs(SubSeq(ps, 1, Len(ps) - 1)), p[1], p[2])

Min(a, b) == IF a < b THEN a ELSE b

\* zip(columns, row)
Zip(columns, row) ==
  [i \in 1..Min(Len(columns), Len(row)) |-> <<columns[i], row[i]>>]

NoDup(s) == \A i, j \in DOMAIN s : s[i] = s[j] => i = j

\* ------------------------------------------------------------- driver
\* An exception raised by a driver call: its class and str(exc).
ExcKinds(b) == IF b = "postgres" THEN {"sqlalchemy", "other"} ELSE {"other"}
ErrMsgs == {<<"boom">>, <<"denied">>}
\* A statement error of either driver may quote the statement in its message.
StmtMsgs(s) == ErrMsgs \cup {<<"bad [SQL: ">> \o s \o <<"]">>}
Excs(b, msgs) == [kind : ExcKinds(b), msg : msgs]
NoExc == [kind |-> "none", msg |-> <<>>]

SqlInputs == {None} \cup SeqsUpTo(SqlChars, MaxSqlLen)

\* The handle of an executed statement: result.returns_rows / cursor.description,
\* the column names, the rows still to fetch, rowcount.
Cursor(rr, cols, rows, rc, has) ==
  [returns_rows |-> rr, cols |-> cols, rows |-> rows, rowcount |-> rc,
   has_rowcount |-> has]
NoCursor == Cursor(FALSE, <<>>, <<>>, 0, FALSE)

\* What the database may answer to an arbitrary statement.
QueryResults(b) ==
  UNION {{Cursor(TRUE, cols, rows, Len(rows), TRUE) :
            rows \in SeqsUpTo([1..Len(cols) -> CellValues], MaxRows)} :
         cols \in SeqsUpTo(ColNames, 2) \ {<<>>}} \cup
  {Cursor(FALSE, <<>>, <<>>, rc, has) :
     rc \in -1..MaxCount, has \in IF b = "vertica" THEN BOOLEAN ELSE {TRUE}}

\* ---- catalog: list_tables
BaseType(b) == IF b = "postgres" THEN "BASE TABLE" ELSE "TABLE"
RawTypes(b) ==
  IF b = "postgres" THEN {"BASE TABLE", "VIEW", "FOREIGN"}
  ELSE {"TABLE", "VIEW", "SYSTEM TABLE"}
Lower(raw) ==
  CASE raw = "BASE TABLE" -> "base table"
    [] raw = "TABLE" -> "table"
    [] raw = "VIEW" -> "view"
    [] raw = "FOREIGN" -> "foreign"
    [] raw = "SYSTEM TABLE" -> "system table"
    [] OTHER -> raw

\* Variant: the ELSE branch gives table_type as it is.
ObjectTypeNoLower(b, raw) ==
  IF raw = BaseType(b) THEN "table"
  ELSE IF raw = "VIEW" THEN "view"
  ELSE raw

\* The CASE expression of the listing statement.
ObjectType(b, raw) ==
  IF raw = BaseType(b) THEN "table"
  ELSE IF raw = "VIEW" THEN "view"
  ELSE Lower(raw)

TablesCols == <<"table_name", "table_type", "object_type">>

\* ORDER BY table_name: table names are unique within a schema.
SortedNames ==
  {s \in SeqsUpTo(TableNames, MaxTables) :
     \A i \in 1..(Len(s) - 1) : TableRank(s[i]) < TableRank(s[i + 1])}

TablesResults(b) ==
  UNION {{Cursor(TRUE, TablesCols,
                 [i \in DOMAIN ns |-> <<ns[i], ts[i], ObjectType(b, ts[i])>>],
                 Len(ns), TRUE) :
            ts \in [DOMAIN ns -> RawTypes(b)]} : ns \in SortedNames}

\* ---- catalog: describe_table
ColumnsCols(b) ==
  <<"column_name", "data_type", "is_nullable", "column_default",
    IF b = "postgres" THEN "character_maximum_length" ELSE "data_type_length",
    "numeric_precision", "numeric_scale">>
Nullables(b) == IF b = "postgres" THEN {"YES", "NO"} ELSE BOOLEAN
ColumnRow(name, nullable) ==
  <<name, "integer", nullable, Null, Null, IntVal(32), IntVal(0)>>

\* ORDER BY ordinal_position: column names are unique within a table.
ColumnsResults(b) ==
  UNION {{Cursor(TRUE, ColumnsCols(b),
                 [i \in DOMAIN ns |-> ColumnRow(ns[i], nl[i])], Len(ns), TRUE) :
            nl \in [DOMAIN ns -> Nullables(b)]} :
         ns \in {s \in SeqsUpTo(ColNames, 2) : NoDup(s)}}

ConstraintsCols ==
  <<"constraint_type", "constraint_name", "column_name",
    "foreign_table_name", "foreign_column_name">>
ConstraintTypes == {"PRIMARY KEY", "FOREIGN KEY", "UNIQUE"}
ConstraintRow(ty, col) ==
  <<ty, "c_" \o col, col,
    IF ty = "FOREIGN KEY" THEN TableName(1) ELSE Null,
    IF ty = "FOREIGN KEY" THEN "b" ELSE Null>>
ProjectionsCols ==
  <<"projection_name", "is_super_projection", "projection_column_count",
    "created_epoch">>
ProjectionRow(super) == <<"p_" \o ToString(super), super, IntVal(2), IntVal(7)>>

ExtraResults(b) ==
  IF b = "postgres"
  THEN {Cursor(TRUE, ConstraintsCols, rows, Len(rows), TRUE) :
          rows \in SeqsUpTo({ConstraintRow(ty, c) :
                               ty \in ConstraintTypes, c \in ColNames}, 2)}
  ELSE {Cursor(TRUE, ProjectionsCols, rows, Len(rows), TRUE) :
          rows \in SeqsUpTo({ProjectionRow(s) : s \in BOOLEAN}, 2)}

\* ---- catalog: get_schema_relationships
FksCols ==
  <<"source_table", "source_column", "target_table", "target_column",
    "constraint_name">>
EdgeRows ==
  {<<st, sc, tt, tc, "fk_" \o st \o "_" \o sc>> :
     st \in TableNames, sc \in ColNames, tt \in TableNames, tc \in ColNames}
EdgeLeq(e, f) ==
  \/ TableRank(e[1]) < TableRank(f[1])
  \/ e[1] = f[1] /\ ColRank[e[2]] <= ColRank[f[2]]

\* ORDER BY source table, source column.
FksResults ==
  {Cursor(TRUE, FksCols, rows, Len(rows), TRUE) :
     rows \in {s \in SeqsUpTo(EdgeRows, MaxEdges) :
                 \A i \in 1..(Len(s) - 1) : EdgeLeq(s[i], s[i + 1])}}

\* ------------------------------------------------------------- state
VARIABLES
  backend,     \* which server module runs
  pc,          \* position of the running invocation
  tool,        \* the tool invoked
  sql,         \* argument of query
  schema,      \* argument of the introspection tools
  table_name,  \* argument of describe_table
  held,        \* connections currently open (checked out)
  acquired,    \* connections acquired by this invocation
  txFailed,    \* the connection's transaction is in the failed state
  sent,        \* statements sent by this invocation, in order
  stage,       \* describe_table: "main" (columns) or "extra" (constraints)
  cursor,      \* handle of the last main statement executed
  rows,        \* tables / columns / relationships (normalized)
  extra,       \* constraints / projections (normalized)
  idx,         \* list_tables: position of the loop over tables
  row_count,   \* describe_table: row_count
  size,        \* describe_table: table_size / <<used_bytes, estimated_rows>>
  ret,         \* the value returned to the transport
  outcome,     \* "none" | "returned" | "raised"
  exc,         \* the exception that ended the invocation, if any
  conn,        \* the connection the running invocation holds, 0 if none
  other,       \* a second invocation running at the same time
  pooled       \* the idle connection the pool keeps: "none" | "clean" | "failed"

vars ==
  <<backend, pc, tool, sql, schema, table_name, held, acquired, txFailed, sent,
    stage, cursor, rows, extra, idx, row_count, size, ret, outcome, exc, conn,
    other, pooled>>

\* Everything but the second invocation.
invocation ==
  <<backend, pc, tool, sql, schema, table_name, held, acquired, txFailed, sent,
    stage, cursor, rows, extra, idx, row_count, size, ret, outcome, exc, conn>>

args == <<tool, sql, schema, table_name>>
locals == <<rows, extra, idx, row_count, size>>

\* The connections that can be open at the same time, one per invocation.
Conns == 1..MaxConns

\* The second invocation: the connection it holds (0 if none) and whether a
\* statement failed on it.
NoInvocation == [conn |-> 0, failed |-> FALSE]

\* Variant: one connection opened at module level and used by every call.
AcquireShared(inUse) == CHOOSE c \in Conns : \A d \in Conns : c <= d

\* engine.connect() / vertica_python.connect(): a connection that no other
\* invocation holds.
Acquire(inUse) == CHOOSE c \in Conns : c \notin inUse

Stmt(name, i, ok) == [stmt |-> name, i |-> i, ok |-> ok]

Init ==
  /\ backend \in Backends
  /\ pc = "idle"
  /\ tool = "query"
  /\ sql = None
  /\ schema = "public"
  /\ table_name = TableName(1)
  /\ held = 0
  /\ acquired = 0
  /\ txFailed = FALSE
  /\ sent = <<>>
  /\ stage = "main"
  /\ cursor = NoCursor
  /\ rows = <<>>
  /\ extra = <<>>
  /\ idx = 1
  /\ row_count = NA
  /\ size = NA
  /\ ret = <<>>
  /\ outcome = "none"
  /\ exc = NoExc
  /\ conn = 0
  /\ other = NoInvocation
  /\ pooled = "none"

\* ------------------------------------------------------------- handlers
\* Variant: the argument is tested without strip().
SqlMissingNoStrip(s) == s = None \/ s = <<>>

\* query: the validation of the sql argument
SqlMissing(s) == s = None \/ Strip(s) = <<>>

MissingSqlError(b) ==
  <<DictOfPairs(<<
      <<"error", <<"SQL query is required. Please provide a valid SQL statement.">>>>,
      <<"example", IF b = "postgres"
                   THEN <<"SELECT current_user, current_database()">>
                   ELSE <<"SELECT current_user(), current_database()">>>>
    >>)>>

\* Variant: only the driver's own exception class is caught.
CatchesDriverOnly(b, t, kind) == kind = "sqlalchemy"

\* The except clauses around each tool body: which exception classes they
\* catch.  The last clause of every tool is "except Exception".
Catches(b, t, kind) == kind \in {"sqlalchemy", "other"}

\* Variant: the payload drops str(exc).
QueryErrorNoMessage(b, s, e) ==
  <<DictOfPairs(<< <<"error", <<"SQL execution failed: ">>>> >>)>>

\* query: the error payload
QueryError(b, s, e) ==
  <<DictOfPairs(<<
      <<"error", (IF b = "postgres" /\ e.kind # "sqlalchemy"
                  THEN <<"Unexpected error: ">>
                  ELSE <<"SQL execution failed: ">>) \o e.msg>>
    >>)>>

\* Variant: the payload of list_tables carries the message only.
ListTablesErrorNoSchema(sc, e) ==
  DictOfPairs(<<
    <<"error", <<"Failed to list tables in schema '", sc, "': ">> \o e.msg>> >>)

ListTablesError(sc, e) ==
  DictOfPairs(<<
    <<"error", <<"Failed to list tables in schema '", sc, "': ">> \o e.msg>>,
    <<"schema", sc>> >>)

DescribeError(sc, tn, e) ==
  DictOfPairs(<<
    <<"error", <<"Failed to describe table '", sc, ".", tn, "': ">> \o e.msg>> >>)

RelationshipsError(sc, e) ==
  DictOfPairs(<<
    <<"error", <<"Failed to get schema relationships for '", sc, "': ">> \o e.msg>> >>)

ErrorPayload(b, t, s, sc, tn, e) ==
  CASE t = "query" -> QueryError(b, s, e)
    [] t = "list_tables" -> ListTablesError(sc, e)
    [] t = "describe_table" -> DescribeError(sc, tn, e)
    [] OTHER -> RelationshipsError(sc, e)

\* Variant: the connection is closed by hand at the end of the block, so an
\* exception leaves it open.
WithExitLeaksOnRaise(h, how) ==
  IF how = "raise" THEN h ELSE IF h > 0 THEN h - 1 ELSE 0

\* "with ... as conn": connections open after the block is left, by a return
\* ("return") or by an exception ("raise")
WithExit(h, how) == IF h > 0 THEN h - 1 ELSE 0

\* Variant: the pool takes a connection back as it is.
ResetOnReturnSkipped(failed) == failed

\* The pool rolls back a connection it takes back: whether its transaction is
\* in the failed state afterwards.
ResetOnReturn(failed) == FALSE

\* The idle connection of the pool after the with block is left with h
\* connections open.  vertica_python.connect() has no pool: the connection is
\* closed.
Returned(b, h, failed, idle) ==
  IF h = 0 THEN idle
  ELSE IF b = "vertica" THEN "none"
  ELSE IF ResetOnReturn(failed) THEN "failed" ELSE "clean"

\* An exception e leaves the with block and reaches the except clauses.
Raise(e) ==
  /\ held' = WithExit(held, "raise")
  /\ conn' = 0
  /\ pooled' = Returned(backend, held, txFailed, pooled)
  /\ exc' = e
  /\ pc' = "done"
  /\ IF Catches(backend, tool, e.kind)
     THEN /\ outcome' = "returned"
          /\ ret' = ErrorPayload(backend, tool, sql, schema, table_name, e)
     ELSE /\ outcome' = "raised"
          /\ ret' = <<>>

\* A return statement inside the with block.
ReturnValue(v) ==
  /\ held' = WithExit(held, "return")
  /\ conn' = 0
  /\ pooled' = Returned(backend, held, txFailed, pooled)
  /\ exc' = NoExc
  /\ pc' = "done"
  /\ outcome' = "returned"
  /\ ret' = v

\* ------------------------------------------------------------- normalizers
\* [dict(zip(columns, row)) for row in cursor.fetchall()]
ZipRows(cols, rws) == [i \in DOMAIN rws |-> DictOfPairs(Zip(cols, rws[i]))]

\* [dict(row) for row in result.mappings()]
MappingRows(cols, rws) == [i \in DOMAIN rws |-> DictOfPairs(Zip(cols, rws[i]))]

\* A RowMapping refuses a column name that two result columns share.
Ambiguous == [kind |-> "sqlalchemy", msg |-> <<"Ambiguous column name">>]

\* describe_table (columnar): the column and projection dicts built by index
VerticaColumn(row) ==
  DictOfPairs(<<
    <<"column_name", row[1]>>, <<"data_type", row[2]>>, <<"is_nullable", row[3]>>,
    <<"column_default", row[4]>>, <<"data_type_length", row[5]>>,
    <<"numeric_precision", row[6]>>, <<"numeric_scale", row[7]>> >>)

VerticaProjection(row) ==
  DictOfPairs(<<
    <<"projection_name", row[1]>>, <<"is_super_projection", row[2]>>,
    <<"column_count", row[3]>>, <<"created_epoch", row[4]>> >>)

\* get_schema_relationships (columnar): the edge dict built by index
VerticaRelationship(row) ==
  DictOfPairs(<<
    <<"source_table", row[1]>>, <<"source_column", row[2]>>,
    <<"target_table", row[3]>>, <<"target_column", row[4]>>,
    <<"constraint_name", row[5]>> >>)

\* Variant: the count is read without the hasattr test.
AffectedRowsNoDefault(b, cur) == cur.rowcount

\* Variant: the count is read only where the row store reads it.
AffectedRowsDefault(b, cur) == IF b = "postgres" THEN cur.rowcount ELSE 0

\* query: the record of a statement that produced no rows
AffectedRows(b, cur) ==
  IF b = "postgres" THEN cur.rowcount
  ELSE IF cur.has_rowcount THEN cur.rowcount ELSE 0

Completed(b, cur) ==
  <<DictOfPairs(<< <<"affected_rows", AffectedRows(b, cur)>>,
                   <<"operation", "completed">> >>)>>

\* query: the records of a statement that produced rows
QueryRows(b, cur) ==
  IF b = "postgres" THEN MappingRows(cur.cols, cur.rows)
  ELSE ZipRows(cur.cols, cur.rows)

\* list_tables: tables
TableDicts(b, cur) ==
  IF b = "postgres" THEN MappingRows(cur.cols, cur.rows)
  ELSE ZipRows(cur.cols, cur.rows)

\* describe_table: columns
ColumnDicts(b, cur) ==
  IF b = "postgres" THEN MappingRows(cur.cols, cur.rows)
  ELSE [i \in DOMAIN cur.rows |-> VerticaColumn(cur.rows[i])]

\* describe_table: constraints / projections
ExtraDicts(b, cur) ==
  IF b = "postgres" THEN MappingRows(cur.cols, cur.rows)
  ELSE [i \in DOMAIN cur.rows |-> VerticaProjection(cur.rows[i])]

\* get_schema_relationships: relationships
RelationshipDicts(b, cur) ==
  IF b = "postgres" THEN MappingRows(cur.cols, cur.rows)
  ELSE [i \in DOMAIN cur.rows |-> VerticaRelationship(cur.rows[i])]

NotFound(sc, tn) ==
  DictOfPairs(<< <<"error", <<"Table '", sc, ".", tn, "' not found">>>> >>)

\* Variant: the probes run without a try block of their own.
ProbeExceptNothing(kind) == FALSE

\* The bare "except:" around each row-count and storage-size probe: which
\* exception classes it catches.
ProbeExcept(kind) == TRUE

\* Variant: a failed probe leaves 0 in its field.
FallbackZero == IntVal(0)

\* The value a field takes when its probe failed.
Fallback == NA

\* Variant: the empty column list is not tested.
TableMissingNever(columns) == FALSE

\* describe_table: "if not columns"
TableMissing(columns) == columns = <<>>

\* ------------------------------------------------------------- invocation
\* The transport calls a tool.  query validates sql before anything else.
Call(t, s, sc, tn) ==
  /\ pc = "idle"
  /\ tool' = t
  /\ sql' = s
  /\ schema' = sc
  /\ table_name' = tn
  /\ acquired' = 0
  /\ txFailed' = FALSE
  /\ sent' = <<>>
  /\ stage' = "main"
  /\ cursor' = NoCursor
  /\ rows' = <<>>
  /\ extra' = <<>>
  /\ idx' = 1
  /\ row_count' = NA
  /\ size' = NA
  /\ exc' = NoExc
  /\ held' = held
  /\ conn' = conn
  /\ pooled' = pooled
  /\ IF t = "query" /\ SqlMissing(s)
     THEN /\ pc' = "done"
          /\ outcome' = "returned"
          /\ ret' = MissingSqlError(backend)
     ELSE /\ pc' = "connect"
          /\ outcome' = "none"
          /\ ret' = <<>>
  /\ UNCHANGED <<backend, other>>

\* engine.connect() / vertica_python.connect(**connection_info)
\* The pool hands out its idle connection, in the state it was left in, or
\* opens a new one.
Connect ==
  /\ pc = "connect"
  /\ held' = held + 1
  /\ conn' = Acquire({other.conn})
  /\ txFailed' = (pooled = "failed")
  /\ pooled' = "none"
  /\ acquired' = acquired + 1
  /\ pc' = "exec"
  /\ UNCHANGED <<backend, other, args, sent, stage, cursor, locals, ret,
                 outcome, exc>>

ConnectFail(e) ==
  /\ pc = "connect"
  /\ Raise(e)
  /\ UNCHANGED <<backend, other, args, acquired, txFailed, sent, stage, cursor, locals>>

\* The statement a tool sends at its main (or, describe_table, second) step.
StmtName(b, t, st) ==
  CASE t = "query" -> "sql"
    [] t = "list_tables" -> "tables"
    [] t = "describe_table" /\ st = "main" -> "columns"
    [] t = "describe_table" -> IF b = "postgres" THEN "constraints"
                               ELSE "projections"
    [] OTHER -> "foreign_keys"

Results(b, t, st) ==
  CASE t = "query" -> QueryResults(b)
    [] t = "list_tables" -> TablesResults(b)
    [] t = "describe_table" /\ st = "main" -> ColumnsResults(b)
    [] t = "describe_table" -> ExtraResults(b)
    [] OTHER -> FksResults

\* conn.execute(...) / cursor.execute(...) succeeds with the handle cur, one of
\* Results(backend, tool, stage).  query returns at once when the statement
\* produced no rows.
Execute(cur) ==
  /\ pc = "exec"
  /\ sent' = Append(sent, Stmt(StmtName(backend, tool, stage), 0, TRUE))
  /\ cursor' = cur
  /\ IF tool = "query" /\ ~cur.returns_rows
     THEN ReturnValue(Completed(backend, cur))
     ELSE /\ pc' = "fetch"
          /\ UNCHANGED <<held, conn, pooled, ret, outcome, exc>>
  /\ UNCHANGED <<backend, other, args, acquired, txFailed, stage, locals>>

ExecuteFail(e) ==
  /\ pc = "exec"
  /\ sent' = Append(sent, Stmt(StmtName(backend, tool, stage), 0, FALSE))
  /\ Raise(e)
  /\ UNCHANGED <<backend, other, args, acquired, txFailed, stage, cursor, locals>>

\* The rows are fetched and normalized.
Fetch(amb) ==
  /\ pc = "fetch"
  /\ UNCHANGED <<backend, other, args, acquired, txFailed, sent, cursor, idx,
                 row_count, size>>
  /\ CASE tool = "query" ->
            /\ IF /\ backend = "postgres" /\ amb
                  /\ ~NoDup(cursor.cols) /\ cursor.rows # <<>>
               THEN Raise(Ambiguous)
               ELSE ReturnValue(QueryRows(backend, cursor))
            /\ UNCHANGED <<stage, rows, extra>>
       [] tool = "list_tables" ->
            /\ rows' = TableDicts(backend, cursor)
            /\ pc' = IF cursor.rows = <<>> THEN "assemble" ELSE "count"
            /\ UNCHANGED <<stage, extra, held, conn, pooled, ret, outcome, exc>>
       [] tool = "describe_table" /\ stage = "main" ->
            /\ rows' = ColumnDicts(backend, cursor)
            /\ IF TableMissing(ColumnDicts(backend, cursor))
               THEN /\ ReturnValue(NotFound(schema, table_name))
                    /\ UNCHANGED stage
               ELSE /\ stage' = "extra"
                    /\ pc' = "exec"
                    /\ UNCHANGED <<held, conn, pooled, ret, outcome, exc>>
            /\ UNCHANGED extra
       [] tool = "describe_table" /\ stage = "extra" ->
            /\ extra' = ExtraDicts(backend, cursor)
            /\ pc' = "count"
            /\ UNCHANGED <<stage, rows, held, conn, pooled, ret, outcome, exc>>
       [] OTHER ->
            /\ rows' = RelationshipDicts(backend, cursor)
            /\ pc' = "assemble"
            /\ UNCHANGED <<stage, extra, held, conn, pooled, ret, outcome, exc>>

FetchFail(e) ==
  /\ pc = "fetch"
  /\ Raise(e)
  /\ UNCHANGED <<backend, other, args, acquired, txFailed, sent, stage, cursor, locals>>

\* ------------------------------------------------------------- probes
\* A statement fails as long as the transaction of the connection is in the
\* failed state; the columnar store runs with autocommit.
CanSucceed == ~txFailed

\* A probe statement sent, with what the database answers to it on a
\* connection whose transaction is not in the failed state: a value, or Fails.
Fails == <<"fails">>
Probe(name, i, ok, healthy) ==
  [stmt |-> name, i |-> i, ok |-> ok, healthy |-> healthy]
CountResults == {IntVal(n) : n \in 0..MaxCount}

\* list_tables: the table the loop is at
Current == rows[idx]
IsTable(table) == DictGet(table, "object_type") = "table"

AfterTable ==
  /\ idx' = idx + 1
  /\ pc' = IF idx + 1 > Len(rows) THEN "assemble" ELSE "count"

\* SELECT COUNT(*) succeeds with n rows.
CountProbe(n) ==
  /\ pc = "count"
  /\ CanSucceed
  /\ IF tool = "list_tables"
     THEN /\ IsTable(Current)
          /\ sent' = Append(sent, Probe("count", idx, TRUE, IntVal(n)))
          /\ rows' = [rows EXCEPT ![idx] = DictSet(@, "row_count", IntVal(n))]
          /\ AfterTable
          /\ UNCHANGED row_count
     ELSE /\ sent' = Append(sent, Probe("count", 0, TRUE, IntVal(n)))
          /\ row_count' = IntVal(n)
          /\ pc' = "size"
          /\ UNCHANGED <<rows, idx>>
  /\ UNCHANGED <<backend, other, args, held, conn, pooled, acquired, txFailed, stage, cursor, extra,
                 size, ret, outcome, exc>>

\* SELECT COUNT(*) fails: the bare except gives 'N/A'.  On the row store the
\* failed statement may leave the transaction in the failed state.  A
\* statement the database would answer fails only in a failed transaction.
CountProbeFail(e, poison, healthy) ==
  /\ pc = "count"
  /\ poison \in (IF backend = "postgres" THEN BOOLEAN ELSE {FALSE})
  /\ healthy = Fails \/ txFailed
  /\ txFailed' = (txFailed \/ poison)
  /\ tool = "list_tables" => IsTable(Current)
  /\ sent' = Append(sent, Probe("count", IF tool = "list_tables" THEN idx ELSE 0,
                                FALSE, healthy))
  /\ IF ~ProbeExcept(e.kind)
     THEN /\ Raise(e)
          /\ UNCHANGED <<rows, idx, row_count>>
     ELSE /\ IF tool = "list_tables"
             THEN /\ rows' = [rows EXCEPT ![idx] = DictSet(@, "row_count", Fallback)]
                  /\ AfterTable
                  /\ UNCHANGED row_count
             ELSE /\ row_count' = Fallback
                  /\ pc' = "size"
                  /\ UNCHANGED <<rows, idx>>
          /\ UNCHANGED <<held, conn, pooled, ret, outcome, exc>>
  /\ UNCHANGED <<backend, other, args, acquired, stage, cursor, extra, size>>

\* list_tables: a view or other object gets 'N/A' without a probe.
CountSkip ==
  /\ pc = "count"
  /\ tool = "list_tables"
  /\ ~IsTable(Current)
  /\ rows' = [rows EXCEPT ![idx] = DictSet(@, "row_count", NA)]
  /\ AfterTable
  /\ UNCHANGED <<backend, other, args, held, conn, pooled, acquired, txFailed, sent, stage, cursor,
                 extra, row_count, size, ret, outcome, exc>>

\* describe_table: what the storage-size statement answers.  The columnar
\* store may have no storage container for the table (fetchone() is None).
SizeResults(b) ==
  IF b = "postgres" THEN {Str("8 kB"), Str("16 kB")}
  ELSE {None} \cup {<<IntVal(64), IntVal(n)>> : n \in 0..MaxCount}

SizeOf(b, v) ==
  IF b = "postgres" THEN v
  ELSE IF v = None THEN <<NA, NA>> ELSE v

\* Variant: a failed storage probe leaves None in its fields.
SizeFailedNone(b) == IF b = "postgres" THEN None ELSE <<None, None>>

\* except: table_size = 'N/A' / used_bytes = estimated_rows = 'N/A'
SizeFailed(b) == IF b = "postgres" THEN Fallback ELSE <<Fallback, Fallback>>

SizeProbe(v) ==
  /\ pc = "size"
  /\ CanSucceed
  /\ sent' = Append(sent, Probe("size", 0, TRUE, v))
  /\ size' = SizeOf(backend, v)
  /\ pc' = "assemble"
  /\ UNCHANGED <<backend, other, args, held, conn, pooled, acquired, txFailed, stage, cursor, rows,
                 extra, idx, row_count, ret, outcome, exc>>

SizeProbeFail(e, poison, healthy) ==
  /\ pc = "size"
  /\ poison \in (IF backend = "postgres" THEN BOOLEAN ELSE {FALSE})
  /\ healthy = Fails \/ txFailed
  /\ txFailed' = (txFailed \/ poison)
  /\ sent' = Append(sent, Probe("size", 0, FALSE, healthy))
  /\ IF ~ProbeExcept(e.kind)
     THEN /\ Raise(e)
          /\ UNCHANGED size
     ELSE /\ size' = SizeFailed(backend)
          /\ pc' = "assemble"
          /\ UNCHANGED <<held, conn, pooled, ret, outcome, exc>>
  /\ UNCHANGED <<backend, other, args, acquired, stage, cursor, rows, extra, idx,
                 row_count>>

\* ------------------------------------------------------------- reports
\* Variant: table_count counts only the entries classified 'table'.
ListTablesReportBaseOnly(sc, table_info) ==
  DictOfPairs(<<
    <<"schema", sc>>,
    <<"table_count",
      Len(SelectSeq(table_info, LAMBDA t : DictGet(t, "object_type") = "table"))>>,
    <<"tables", table_info>> >>)

ListTablesReport(sc, table_info) ==
  DictOfPairs(<<
    <<"schema", sc>>, <<"table_count", Len(table_info)>>,
    <<"tables", table_info>> >>)

\* Variant: every column is counted as nullable.
IsNullableAlways(b, c) == TRUE

\* c['is_nullable'] == 'YES' / c['is_nullable']
IsNullable(b, c) ==
  IF b = "postgres" THEN DictGet(c, "is_nullable") = "YES"
  ELSE DictGet(c, "is_nullable") = TRUE

IsPrimaryKey(c) == DictGet(c, "constraint_type") = "PRIMARY KEY"
IsForeignKey(c) == DictGet(c, "constraint_type") = "FOREIGN KEY"
IsSuper(p) == DictGet(p, "is_super_projection") = TRUE

Summary(b, columns, ex) ==
  IF b = "postgres"
  THEN DictOfPairs(<<
         <<"total_columns", Len(columns)>>,
         <<"nullable_columns",
           Len(SelectSeq(columns, LAMBDA c : IsNullable(b, c)))>>,
         <<"primary_keys",
           LET pk == SelectSeq(ex, IsPrimaryKey)
           IN [i \in DOMAIN pk |-> DictGet(pk[i], "column_name")]>>,
         <<"foreign_keys", SelectSeq(ex, IsForeignKey)>> >>)
  ELSE DictOfPairs(<<
         <<"total_columns", Len(columns)>>,
         <<"nullable_columns",
           Len(SelectSeq(columns, LAMBDA c : IsNullable(b, c)))>>,
         <<"total_projections", Len(ex)>>,
         <<"super_projections", Len(SelectSeq(ex, IsSuper))>> >>)

DescribeReport(b, sc, tn, rc, sz, columns, ex) ==
  IF b = "postgres"
  THEN DictOfPairs(<<
         <<"schema", sc>>, <<"table_name", tn>>, <<"row_count", rc>>,
         <<"table_size", sz>>, <<"columns", columns>>, <<"constraints", ex>>,
         <<"summary", Summary(b, columns, ex)>> >>)
  ELSE DictOfPairs(<<
         <<"schema", sc>>, <<"table_name", tn>>, <<"row_count", rc>>,
         <<"estimated_rows", sz[2]>>, <<"used_bytes", sz[1]>>,
         <<"columns", columns>>, <<"projections", ex>>,
         <<"summary", Summary(b, columns, ex)>> >>)

\* Variant: the ON clause names the columns the wrong way round.
JoinPatternSwapped(sc, rel) ==
  Strip(<<"\n",
          "-- Join ", DictGet(rel, "source_table"), " with ",
          DictGet(rel, "target_table"), "\n",
          "SELECT * FROM \"", sc, "\".\"", DictGet(rel, "source_table"), "\" s",
          "\n",
          "JOIN \"", sc, "\".\"", DictGet(rel, "target_table"), "\" t", " ", "\n",
          "    ", "ON s.\"", DictGet(rel, "target_column"), "\" = t.\"",
          DictGet(rel, "source_column"), "\"", "\n", "    ">>)

\* The f-string of the suggested join, stripped.
JoinPattern(sc, rel) ==
  Strip(<<"\n",
          "-- Join ", DictGet(rel, "source_table"), " with ",
          DictGet(rel, "target_table"), "\n",
          "SELECT * FROM \"", sc, "\".\"", DictGet(rel, "source_table"), "\" s",
          "\n",
          "JOIN \"", sc, "\".\"", DictGet(rel, "target_table"), "\" t", " ", "\n",
          "    ", "ON s.\"", DictGet(rel, "source_column"), "\" = t.\"",
          DictGet(rel, "target_column"), "\"", "\n", "    ">>)

\* The arrow of the description: U+2192, mis-encoded in the row-store module.
Arrow(b) == IF b = "postgres" THEN " U+00E2 U+2020 U+2019 " ELSE " U+2192 "

JoinSuggestion(b, sc, rel) ==
  DictOfPairs(<<
    <<"description", <<"Join ", DictGet(rel, "source_table"), Arrow(b),
                       DictGet(rel, "target_table")>>>>,
    <<"sql_pattern", JoinPattern(sc, rel)>>,
    <<"relationship", rel>> >>)

\* for rel in relationships: join_suggestions.append(...)
JoinSuggestions(b, sc, rels) ==
  [i \in DOMAIN rels |-> JoinSuggestion(b, sc, rels[i])]

\* Variant: len(sources + targets), without set().
ConnectedTablesWithRepeats(rels) == Len(rels) + Len(rels)

\* len(set(sources + targets))
ConnectedTables(rels) ==
  Cardinality({DictGet(rels[i], "source_table") : i \in DOMAIN rels} \cup
              {DictGet(rels[i], "target_table") : i \in DOMAIN rels})

RelationshipsReport(b, sc, rels) ==
  DictOfPairs(
    <<<<"schema", sc>>>> \o
    (IF b = "vertica" THEN <<<<"database_type", "Vertica">>>> ELSE <<>>) \o
    << <<"relationships", rels>>,
       <<"join_suggestions", JoinSuggestions(b, sc, rels)>>,
       <<"summary", DictOfPairs(<<
           <<"total_relationships", Len(rels)>>,
           <<"connected_tables", ConnectedTables(rels)>> >>)>> >>)

\* The report is assembled and returned; the with block is left.
Return ==
  /\ pc = "assemble"
  /\ ReturnValue(
       CASE tool = "list_tables" -> ListTablesReport(schema, rows)
         [] tool = "describe_table" ->
              DescribeReport(backend, schema, table_name, row_count, size,
                             rows, extra)
         [] OTHER -> RelationshipsReport(backend, schema, rows))
  /\ UNCHANGED <<backend, other, args, acquired, txFailed, sent, stage, cursor, locals>>

\* The transport takes the returned value; the frame of the invocation is
\* gone and the server waits for the next call.
Respond ==
  /\ pc = "done"
  /\ pc' = "idle"
  /\ tool' = "query"
  /\ sql' = None
  /\ schema' = "public"
  /\ table_name' = TableName(1)
  /\ acquired' = 0
  /\ txFailed' = FALSE
  /\ sent' = <<>>
  /\ stage' = "main"
  /\ cursor' = NoCursor
  /\ rows' = <<>>
  /\ extra' = <<>>
  /\ idx' = 1
  /\ row_count' = NA
  /\ size' = NA
  /\ ret' = <<>>
  /\ outcome' = "none"
  /\ exc' = NoExc
  /\ UNCHANGED <<backend, other, held, conn, pooled>>

\* ------------------------------------------------------------- second invocation
\* A tool invoked while another invocation runs; of its steps only those that
\* touch what the module shares between invocations: the connections.
OtherConnect ==
  /\ other.conn = 0
  /\ other' = [conn |-> Acquire({conn}), failed |-> pooled = "failed"]
  /\ pooled' = "none"
  /\ UNCHANGED invocation

\* A statement of the second invocation fails on the row store (the columnar
\* store runs with autocommit: a failed statement leaves nothing behind).  The
\* failed state is a state of the connection: it reaches whoever uses that
\* connection.
OtherStatementFail ==
  /\ backend = "postgres"
  /\ other.conn # 0
  /\ ~other.failed
  /\ other' = [other EXCEPT !.failed = TRUE]
  /\ txFailed' = IF other.conn = conn THEN TRUE ELSE txFailed
  /\ UNCHANGED <<backend, pc, args, held, acquired, sent, stage, cursor, locals,
                 ret, outcome, exc, conn, pooled>>

\* The with block of the second invocation is left.
OtherRelease ==
  /\ other.conn # 0
  /\ other' = NoInvocation
  /\ pooled' = Returned(backend, other.conn, other.failed, pooled)
  /\ UNCHANGED invocation

\* ------------------------------------------------------------- system
Next ==
  \/ /\ pc = "idle"
     /\ \/ \E s \in SqlInputs : Call("query", s, "public", TableName(1))
        \/ \E t \in {"list_tables", "get_schema_relationships"}, sc \in Schemas :
             Call(t, None, sc, TableName(1))
        \/ \E sc \in Schemas, tn \in TableNames :
             Call("describe_table", None, sc, tn)
  \/ Connect
  \/ \E e \in Excs(backend, ErrMsgs) : ConnectFail(e)
  \/ /\ pc = "exec"
     /\ \E cur \in Results(backend, tool, stage) : Execute(cur)
  \/ /\ pc = "exec"
     /\ \E e \in Excs(backend, IF tool = "query" THEN StmtMsgs(sql) ELSE ErrMsgs) :
          ExecuteFail(e)
  \/ \E amb \in BOOLEAN : Fetch(amb)
  \/ \E e \in Excs(backend, ErrMsgs) : FetchFail(e)
  \/ \E n \in 0..MaxCount : CountProbe(n)
  \/ /\ pc = "count"
     /\ \E e \in Excs(backend, ErrMsgs), poison \in BOOLEAN,
           healthy \in {Fails} \cup CountResults :
          CountProbeFail(e, poison, healthy)
  \/ CountSkip
  \/ /\ pc = "size"
     /\ \E v \in SizeResults(backend) : SizeProbe(v)
  \/ /\ pc = "size"
     /\ \E e \in Excs(backend, ErrMsgs), poison \in BOOLEAN,
           healthy \in {Fails} \cup SizeResults(backend) :
          SizeProbeFail(e, poison, healthy)
  \/ Return
  \/ Respond

Spec == Init /\ [][Next]_vars

\* Two invocations at the same time, their steps interleaved.
NextConcurrent ==
  \/ Next
  \/ OtherConnect
  \/ OtherStatementFail
  \/ OtherRelease

SpecConcurrent == Init /\ [][NextConcurrent]_vars

\* ------------------------------------------------------------- properties
Finished(t) == pc = "done" /\ tool = t

\* The running invocation sent its first statement and the driver accepted it.
MainExecuted == sent # <<>> /\ sent[1].ok

\* s occurs in text as a run of consecutive tokens.
Contains(text, s) ==
  \E i \in 1..(Len(text) - Len(s) + 1) : SubSeq(text, i, i + Len(s) - 1) = s

\* The sql argument is absent, empty or made of whitespace only.
Blank(s) == s = None \/ \A i \in DOMAIN s : s[i] \in WS

\* C1: when the statement of query produced rows and the driver delivered
\* them, query returns one record per driver row, in driver order, and the
\* keys of every record are the driver's column names in the same order
\* (with the row's values under them).
C1_RecordsMatchDriver ==
  (Finished("query") /\ MainExecuted /\ cursor.returns_rows
     /\ exc \in {NoExc, Ambiguous}) =>
    /\ Len(ret) = Len(cursor.rows)
    /\ \A i \in DOMAIN ret :
         /\ Keys(ret[i]) = cursor.cols
         /\ \A j \in DOMAIN cursor.cols : ret[i][j][2] = cursor.rows[i][j]

\* C2: when the statement of query executed and produced no rows, query
\* returns exactly one record and its affected_rows is the count the driver
\* reported.
C2_AffectedRowsReported ==
  (Finished("query") /\ MainExecuted /\ ~cursor.returns_rows) =>
    /\ outcome = "returned"
    /\ Len(ret) = 1
    /\ HasKey(ret[1], "affected_rows")
    /\ cursor.has_rowcount => DictGet(ret[1], "affected_rows") = cursor.rowcount

C2_Witness ==
  /\ Finished("query") /\ MainExecuted /\ ~cursor.returns_rows
  /\ backend = "vertica" /\ cursor.has_rowcount /\ cursor.rowcount = MaxCount
  /\ Len(ret) = 1

\* C3: query called with sql absent, empty or whitespace only returns a
\* record with an error message and a usage example, and that invocation
\* never acquires a connection nor sends a statement.
C3_BlankSqlRejected ==
  (tool = "query" /\ Blank(sql)) =>
    /\ pc \in {"idle", "done"}
    /\ acquired = 0 /\ held = 0 /\ sent = <<>>
    /\ pc = "done" =>
         /\ outcome = "returned"
         /\ Len(ret) = 1
         /\ HasKey(ret[1], "error") /\ HasKey(ret[1], "example")

C3_Witness ==
  /\ Finished("query") /\ sql # None /\ sql # <<>> /\ Blank(sql)
  /\ outcome = "returned" /\ HasKey(ret[1], "example")

\* C4 (as claimed): when query fails, the returned payload carries the
\* backend's error message and the SQL text that was attempted.
C4_ErrorCarriesSql ==
  (Finished("query") /\ exc # NoExc) =>
    /\ Len(ret) = 1
    /\ \E i \in DOMAIN ret[1] : Contains(ret[1][i][2], exc.msg)
    /\ \E i \in DOMAIN ret[1] : Contains(ret[1][i][2], sql)

\* C4 (amended): when query fails, it returns one record whose only key is
\* error, holding a fixed prefix followed by the backend's message; no field
\* holds the SQL text.
C4_ErrorCarriesMessage ==
  (Finished("query") /\ exc # NoExc) =>
    /\ outcome = "returned"
    /\ Len(ret) = 1
    /\ Keys(ret[1]) = <<"error">>
    /\ Head(DictGet(ret[1], "error")) \in
         {"SQL execution failed: ", "Unexpected error: "}
    /\ Tail(DictGet(ret[1], "error")) = exc.msg

C4_Witness ==
  /\ Finished("query") /\ exc # NoExc /\ sent # <<>> /\ ~sent[1].ok
  /\ exc.msg = <<"boom">> /\ sql = <<"x">>

\* C5: whatever step of whatever tool the driver fails at, the invocation
\* ends by returning a value; no exception leaves the tool.
C5_NoExceptionEscapes ==
  /\ outcome # "raised"
  /\ pc = "done" => outcome = "returned"

C5_Witness ==
  /\ Finished("describe_table") /\ stage = "extra" /\ exc # NoExc
  /\ exc.kind = "other" /\ outcome = "returned"

\* C6: an invocation holds no connection before it connects, exactly one
\* from then until it ends, and none once it has ended, however it ended;
\* it acquires one connection at most, and exactly one if it sent a statement.
C6_ConnectionReleased ==
  /\ acquired <= 1
  /\ pc \in {"idle", "connect", "done"} => held = 0
  /\ pc \notin {"idle", "connect", "done"} => held = 1 /\ acquired = 1
  /\ sent # <<>> => acquired = 1

C6_Witness ==
  /\ Finished("list_tables") /\ exc # NoExc /\ MainExecuted
  /\ acquired = 1 /\ held = 0

\* C7: when the listing statement of list_tables succeeded, the result has
\* the keys schema, table_count, tables (and no error), tables holds one
\* entry per catalog row in driver order, and table_count is its length.
C7_TablesListed ==
  (Finished("list_tables") /\ MainExecuted /\ exc = NoExc) =>
    /\ Keys(ret) = <<"schema", "table_count", "tables">>
    /\ DictGet(ret, "schema") = schema
    /\ LET tables == DictGet(ret, "tables")
       IN /\ Len(tables) = Len(cursor.rows)
          /\ DictGet(ret, "table_count") = Len(tables)
          /\ \A i \in DOMAIN tables :
               /\ DictGet(tables[i], "table_name") = cursor.rows[i][1]
               /\ DictGet(tables[i], "table_type") = cursor.rows[i][2]

C7_Witness ==
  /\ Finished("list_tables") /\ MainExecuted /\ exc = NoExc
  /\ Len(cursor.rows) = MaxTables
  /\ \E i \in DOMAIN cursor.rows : cursor.rows[i][2] = "VIEW"

\* C7, the case of a schema without tables.
C7_EmptySchema ==
  /\ Finished("list_tables") /\ MainExecuted /\ exc = NoExc
  /\ cursor.rows = <<>>
  /\ DictGet(ret, "table_count") = 0 /\ DictGet(ret, "tables") = <<>>

\* The count probes of list_tables that failed.
FailedCounts == {k \in DOMAIN sent : sent[k].stmt = "count" /\ ~sent[k].ok}

\* C8: when row-count probes of list_tables failed, the invocation still
\* returns the report with every listed table, and the row_count of each
\* table whose probe failed is 'N/A'.
C8_CountFailureTolerated ==
  (Finished("list_tables") /\ FailedCounts # {}) =>
    /\ outcome = "returned"
    /\ ~HasKey(ret, "error")
    /\ Len(DictGet(ret, "tables")) = Len(cursor.rows)
    /\ \A i \in DOMAIN cursor.rows :
         DictGet(DictGet(ret, "tables")[i], "table_name") = cursor.rows[i][1]
    /\ \A k \in FailedCounts :
         DictGet(DictGet(ret, "tables")[sent[k].i], "row_count") = NA

C8_Witness ==
  /\ Finished("list_tables") /\ Len(cursor.rows) = MaxTables
  /\ \E k \in FailedCounts : sent[k].i = 1
  /\ \E k \in DOMAIN sent : sent[k].stmt = "count" /\ sent[k].ok

\* C9: when the column statement of describe_table delivered no rows, the
\* invocation ends there with exactly the error "Table '<schema>.<table>'
\* not found", having sent no other statement.
C9_TableNotFound ==
  (/\ tool = "describe_table" /\ MainExecuted /\ exc = NoExc
   /\ cursor.cols = ColumnsCols(backend) /\ cursor.rows = <<>>
   /\ pc # "fetch") =>
    /\ pc = "done"
    /\ ret = << <<"error", <<"Table '", schema, ".", table_name, "' not found">>>> >>
    /\ sent = <<Stmt("columns", 0, TRUE)>>

C9_Witness ==
  /\ Finished("describe_table") /\ MainExecuted /\ exc = NoExc
  /\ cursor.rows = <<>> /\ schema = "s1" /\ table_name = TableName(MaxTables)
  /\ HasKey(ret, "error")

\* A comment line is dropped and every run of whitespace becomes one space.
RECURSIVE SkipLine(_)
SkipLine(text) ==
  IF text = <<>> THEN <<>>
  ELSE IF Head(text) = "\n" THEN Tail(text) ELSE SkipLine(Tail(text))

RECURSIVE Collapse(_)
Collapse(text) ==
  IF text = <<>> THEN <<>>
  ELSE IF Head(text) \in WS THEN <<" ">> \o Collapse(LStrip(text))
  ELSE <<Head(text)>> \o Collapse(Tail(text))

Statement(text) ==
  Collapse(IF text # <<>> /\ Head(text) = "-- Join " THEN SkipLine(text) ELSE text)

JoinShape(sc, src, tgt, scol, tcol) ==
  <<"SELECT * FROM \"", sc, "\".\"", src, "\" s", " ",
    "JOIN \"", sc, "\".\"", tgt, "\" t", " ",
    "ON s.\"", scol, "\" = t.\"", tcol, "\"">>

\* C10: get_schema_relationships returns one join suggestion per edge, in
\* the order of the edges, and the statement of suggestion i is SELECT * FROM
\* "<schema>"."<source>" s JOIN "<schema>"."<target>" t ON s."<sourceCol>" =
\* t."<targetCol>" for edge i (after a comment line, laid out on three lines).
C10_JoinSuggestions ==
  (Finished("get_schema_relationships") /\ MainExecuted /\ exc = NoExc) =>
    LET rels == DictGet(ret, "relationships")
        sugg == DictGet(ret, "join_suggestions")
    IN /\ Len(rels) = Len(cursor.rows)
       /\ Len(sugg) = Len(rels)
       /\ \A i \in DOMAIN sugg :
            /\ DictGet(sugg[i], "relationship") = rels[i]
            /\ Keys(rels[i]) = FksCols
            /\ \A j \in DOMAIN FksCols : rels[i][j][2] = cursor.rows[i][j]
            /\ Statement(DictGet(sugg[i], "sql_pattern")) =
                 JoinShape(schema, cursor.rows[i][1], cursor.rows[i][3],
                           cursor.rows[i][2], cursor.rows[i][4])

C10_Witness ==
  /\ Finished("get_schema_relationships") /\ exc = NoExc
  /\ Len(cursor.rows) = MaxEdges
  /\ cursor.rows[1][1] # cursor.rows[1][3]
  /\ cursor.rows[1][2] # cursor.rows[1][4]
  /\ cursor.rows[1] # cursor.rows[MaxEdges]
  /\ Len(DictGet(ret, "join_suggestions")) = MaxEdges

\* C11: in the report of get_schema_relationships, summary.total_relationships
\* is the number of edges the foreign-key statement delivered and
\* summary.connected_tables is the number of distinct table names that occur
\* as the source or the target of an edge, each table counted once; with no
\* edge both are 0.
C11_SummaryCounts ==
  (Finished("get_schema_relationships") /\ MainExecuted /\ exc = NoExc) =>
    LET summary == DictGet(ret, "summary")
        connected ==
          {t \in TableNames :
             \E i \in DOMAIN cursor.rows :
               cursor.rows[i][1] = t \/ cursor.rows[i][3] = t}
    IN /\ DictGet(summary, "total_relationships") = Len(cursor.rows)
       /\ DictGet(summary, "connected_tables") = Cardinality(connected)
       /\ cursor.rows = <<>> =>
            /\ DictGet(summary, "total_relationships") = 0
            /\ DictGet(summary, "connected_tables") = 0

C11_Witness ==
  /\ Finished("get_schema_relationships") /\ exc = NoExc
  /\ Len(cursor.rows) = MaxEdges
  /\ cursor.rows[1][1] = cursor.rows[1][3]
  /\ cursor.rows[MaxEdges][1] # cursor.rows[MaxEdges][3]
  /\ DictGet(DictGet(ret, "summary"), "connected_tables") = 2

\* C12: when an introspection tool ends with an exception of the connection
\* or of a catalog statement, it returns an error payload that carries the
\* schema asked for: list_tables returns exactly {error, schema} with the
\* requested schema and neither table_count nor tables; the message of
\* describe_table names '<schema>.<table>' and the message of
\* get_schema_relationships names the schema.
C12_ErrorHasSchemaContext ==
  (pc = "done" /\ tool # "query" /\ exc # NoExc) =>
    /\ outcome = "returned"
    /\ HasKey(ret, "error")
    /\ CASE tool = "list_tables" ->
              /\ Keys(ret) = <<"error", "schema">>
              /\ DictGet(ret, "schema") = schema
              /\ Contains(DictGet(ret, "error"), <<schema>>)
         [] tool = "describe_table" ->
              /\ Keys(ret) = <<"error">>
              /\ Contains(DictGet(ret, "error"), <<schema, ".", table_name>>)
         [] OTHER ->
              /\ Keys(ret) = <<"error">>
              /\ Contains(DictGet(ret, "error"), <<schema>>)

C12_Witness ==
  /\ Finished("list_tables") /\ exc # NoExc /\ acquired = 0
  /\ schema = "s1" /\ DictGet(ret, "schema") = "s1"

\* The probes of the running invocation, by position in sent.
Probes(name) == {k \in DOMAIN sent : sent[k].stmt = name}

\* The report of describe_table (not an error payload).
Described == Finished("describe_table") /\ exc = NoExc /\ HasKey(ret, "columns")

ReportKeys(b) ==
  IF b = "postgres"
  THEN <<"schema", "table_name", "row_count", "table_size", "columns",
         "constraints", "summary">>
  ELSE <<"schema", "table_name", "row_count", "estimated_rows", "used_bytes",
         "columns", "projections", "summary">>

\* C13: once describe_table has read the columns of an existing table and its
\* constraints/projections, no failure of the row-count or storage probe ends
\* it with an error: it returns the full report with the columns and the
\* constraints/projections read; a failed probe leaves 'N/A' in its field
\* (row_count; table_size; used_bytes and estimated_rows) and a probe that
\* succeeded leaves the value the database answered (the columnar storage
\* probe that finds no storage row leaves 'N/A' too).
C13_ProbeFailureTolerated ==
  (Finished("describe_table") /\ Probes("count") # {}) =>
    /\ exc = NoExc
    /\ Keys(ret) = ReportKeys(backend)
    /\ DictGet(ret, "columns") = rows /\ rows # <<>>
    /\ DictGet(ret, IF backend = "postgres" THEN "constraints" ELSE "projections")
         = extra
    /\ Cardinality(Probes("count")) = 1 /\ Cardinality(Probes("size")) = 1
    /\ \A k \in Probes("count") :
         DictGet(ret, "row_count") = IF sent[k].ok THEN sent[k].healthy ELSE NA
    /\ \A k \in Probes("size") :
         IF backend = "postgres"
         THEN DictGet(ret, "table_size") =
                IF sent[k].ok THEN sent[k].healthy ELSE NA
         ELSE LET found == sent[k].ok /\ sent[k].healthy # None
              IN /\ DictGet(ret, "used_bytes") =
                      IF found THEN sent[k].healthy[1] ELSE NA
                 /\ DictGet(ret, "estimated_rows") =
                      IF found THEN sent[k].healthy[2] ELSE NA

C13_Witness ==
  /\ Described
  /\ \E k \in Probes("count") : ~sent[k].ok
  /\ \E k \in Probes("size") : sent[k].ok /\ sent[k].healthy # None
  /\ DictGet(ret, "row_count") = NA
  /\ extra # <<>>

\* The positions of seq whose element satisfies Test.
Where(seq, Test(_)) == {i \in DOMAIN seq : Test(seq[i])}

\* The nullability flag of a column descriptor: 'YES'/'NO' from
\* information_schema, a boolean from v_catalog.
SaysNullable(c) ==
  LET flag == DictGet(c, "is_nullable")
  IN IF backend = "vertica" THEN flag = TRUE ELSE flag = "YES"

\* The summary every backend was said to return.
SummaryWithKeys ==
  LET summary == DictGet(ret, "summary")
      columns == DictGet(ret, "columns")
      cons == IF HasKey(ret, "constraints") THEN DictGet(ret, "constraints")
              ELSE <<>>
      pk == SelectSeq(cons, IsPrimaryKey)
  IN /\ DictGet(summary, "total_columns") = Len(columns)
     /\ DictGet(summary, "nullable_columns") =
          Cardinality(Where(columns, SaysNullable))
     /\ HasKey(summary, "primary_keys")
     /\ DictGet(summary, "primary_keys") =
          [i \in DOMAIN pk |-> DictGet(pk[i], "column_name")]
     /\ HasKey(summary, "foreign_keys")
     /\ DictGet(summary, "foreign_keys") = SelectSeq(cons, IsForeignKey)

\* C14 as stated: the report of describe_table has, on both backends, a
\* summary with the column count, the nullable-column count, the primary-key
\* column names and the foreign-key constraint descriptors.
C14_SummaryOnBothBackends == Described => SummaryWithKeys

\* C14: the summary of the report of describe_table has on both backends the
\* number of column descriptors and the number of columns whose nullability
\* flag says nullable; on the row store it has besides the column names of
\* the primary-key constraints and the foreign-key constraint descriptors, in
\* the order of the constraints; on the columnar store it has instead the
\* number of projections and the number of super projections, and no key
\* information.
C14_SummaryPerBackend ==
  Described =>
    LET summary == DictGet(ret, "summary")
        columns == DictGet(ret, "columns")
    IN /\ DictGet(summary, "total_columns") = Len(columns)
       /\ DictGet(summary, "nullable_columns") =
            Cardinality(Where(columns, SaysNullable))
       /\ IF backend = "postgres"
          THEN /\ Keys(summary) = <<"total_columns", "nullable_columns",
                                    "primary_keys", "foreign_keys">>
               /\ SummaryWithKeys
          ELSE /\ Keys(summary) = <<"total_columns", "nullable_columns",
                                    "total_projections", "super_projections">>
               /\ DictGet(summary, "total_projections") =
                    Len(DictGet(ret, "projections"))
               /\ DictGet(summary, "super_projections") =
                    Cardinality(Where(DictGet(ret, "projections"), IsSuper))

C14_Witness ==
  /\ Described
  /\ LET summary == DictGet(ret, "summary")
     IN \/ /\ backend = "postgres"
           /\ DictGet(summary, "total_columns") = 2
           /\ DictGet(summary, "nullable_columns") = 1
           /\ Len(DictGet(summary, "primary_keys")) = 1
           /\ Len(DictGet(summary, "foreign_keys")) = 1
        \/ /\ backend = "vertica"
           /\ DictGet(summary, "total_columns") = 2
           /\ DictGet(summary, "nullable_columns") = 1
           /\ DictGet(summary, "super_projections") = 1
           /\ DictGet(summary, "total_projections") = 2

\* The report of list_tables (not an error payload).
Listed == Finished("list_tables") /\ MainExecuted /\ exc = NoExc

\* v is a count that a successful COUNT(*) probe for position i delivered.
Counted(v, i) ==
  /\ v \in CountResults
  /\ v[2] >= 0
  /\ \E k \in Probes("count") :
       sent[k].i = i /\ sent[k].ok /\ sent[k].healthy = v

\* C15: in every report of list_tables and of describe_table each row_count
\* is present and is either 'N/A' or a non-negative integer that a successful
\* COUNT(*) probe for that table delivered; a failed probe always leaves
\* 'N/A'; an entry of list_tables that is not classified 'table' has 'N/A'
\* and no count probe was sent for it.
C15_RowCountOrNA ==
  /\ Listed =>
       \A i \in DOMAIN DictGet(ret, "tables") :
         LET entry == DictGet(ret, "tables")[i]
         IN /\ HasKey(entry, "row_count")
            /\ DictGet(entry, "row_count") = NA \/ Counted(DictGet(entry, "row_count"), i)
            /\ \A k \in Probes("count") :
                 (sent[k].i = i /\ ~sent[k].ok) => DictGet(entry, "row_count") = NA
            /\ DictGet(entry, "object_type") # "table" =>
                 /\ DictGet(entry, "row_count") = NA
                 /\ \A k \in Probes("count") : sent[k].i # i
  /\ Described =>
       /\ HasKey(ret, "row_count")
       /\ DictGet(ret, "row_count") = NA \/ Counted(DictGet(ret, "row_count"), 0)
       /\ \A k \in Probes("count") : ~sent[k].ok => DictGet(ret, "row_count") = NA

C15_Witness ==
  /\ Listed
  /\ Len(DictGet(ret, "tables")) = 2
  /\ DictGet(DictGet(ret, "tables")[1], "object_type") = "view"
  /\ DictGet(DictGet(ret, "tables")[1], "row_count") = NA
  /\ DictGet(DictGet(ret, "tables")[2], "object_type") = "table"
  /\ DictGet(DictGet(ret, "tables")[2], "row_count") = IntVal(0)
  /\ Cardinality(Probes("count")) = 1

\* C16: with two invocations interleaved, no connection is held by both at
\* the same time, no step of one invocation changes anything the other one
\* reads or returns (no state of the module is written by an invocation for
\* the other to see), and the transaction of an invocation is in the failed
\* state only through a statement of its own: every invocation proceeds and
\* returns as it does when it runs alone.
C16_InvocationsIsolated ==
  /\ [](conn # 0 => conn # other.conn)
  /\ [](txFailed => \E k \in DOMAIN sent : ~sent[k].ok)
  /\ [][other' # other => UNCHANGED invocation]_vars

C16_Witness ==
  /\ pc = "count" /\ tool = "list_tables"
  /\ conn # 0 /\ other.conn # 0 /\ other.failed
  /\ ~txFailed
  /\ \E k \in Probes("count") : sent[k].ok

\* C17: a failed probe affects only its own field.  In a report of
\* list_tables the row_count of every table whose own COUNT(*) the database
\* would answer is that count, whatever happened to the probes of earlier
\* tables; in a report of describe_table the storage fields hold what the
\* database would answer to the storage statement, whatever happened to the
\* row-count probe.
C17_ProbesIndependent ==
  /\ Listed =>
       \A k \in Probes("count") :
         sent[k].healthy # Fails =>
           DictGet(DictGet(ret, "tables")[sent[k].i], "row_count") = sent[k].healthy
  /\ Described =>
       \A k \in Probes("size") :
         (sent[k].healthy # Fails /\ sent[k].healthy # None) =>
           IF backend = "postgres"
           THEN DictGet(ret, "table_size") = sent[k].healthy
           ELSE /\ DictGet(ret, "used_bytes") = sent[k].healthy[1]
                /\ DictGet(ret, "estimated_rows") = sent[k].healthy[2]

OtherBackend(b) == IF b = "postgres" THEN "vertica" ELSE "postgres"

NoRowsReturned == Finished("query") /\ MainExecuted /\ ~cursor.returns_rows

\* C19 as stated: when the driver cannot report a count for a no-rows
\* statement (the attribute is missing, or it holds an 'unknown' value such
\* as -1), affected_rows is 0 on both backends.
C19_UnknownCountIsZero ==
  (NoRowsReturned /\ (~cursor.has_rowcount \/ cursor.rowcount < 0)) =>
    DictGet(ret[1], "affected_rows") = 0

\* C19: for a no-rows statement affected_rows is 0 by default only on the
\* columnar backend when the cursor has no rowcount attribute; in every other
\* case it is the driver's rowcount unchanged, an 'unknown' value such as -1
\* included, on both backends.
C19_CountDefault ==
  NoRowsReturned =>
    DictGet(ret[1], "affected_rows") =
      IF backend = "vertica" /\ ~cursor.has_rowcount THEN 0 ELSE cursor.rowcount

C19_Witness ==
  /\ NoRowsReturned
  /\ cursor.has_rowcount /\ cursor.rowcount = -1
  /\ DictGet(ret[1], "affected_rows") = -1

\* The raw types that are neither the base-table type nor 'VIEW', each with
\* its lower-case form.
LowerCased == {<<"FOREIGN", "foreign">>, <<"SYSTEM TABLE", "system table">>}

\* C20 as stated: the object kind of every entry of list_tables is one of
\* table, view, other: the base-table type gives 'table', 'VIEW' gives 'view',
\* every other raw type gives 'other'.
C20_KindIsOneOfThree ==
  Listed =>
    \A i \in DOMAIN DictGet(ret, "tables") :
      LET raw == cursor.rows[i][2]
          kind == DictGet(DictGet(ret, "tables")[i], "object_type")
      IN /\ kind \in {"table", "view", "other"}
         /\ kind = IF raw = BaseType(backend) THEN "table"
                   ELSE IF raw = "VIEW" THEN "view" ELSE "other"

\* C20: the object kind of every entry of list_tables follows a fixed
\* mapping of the raw type: the base-table type gives 'table', 'VIEW' gives
\* 'view', and every other raw type gives its own lower-case form (such as
\* 'foreign' or 'system table'), never the word 'other'.
C20_KindMapping ==
  Listed =>
    \A i \in DOMAIN DictGet(ret, "tables") :
      LET raw == cursor.rows[i][2]
          kind == DictGet(DictGet(ret, "tables")[i], "object_type")
      IN /\ raw = BaseType(backend) => kind = "table"
         /\ raw = "VIEW" => kind = "view"
         /\ raw \notin {BaseType(backend), "VIEW"} =>
              /\ <<raw, kind>> \in LowerCased
              /\ kind \notin {"table", "view", "other"}

C20_Witness ==
  /\ Listed
  /\ Len(cursor.rows) = 2
  /\ cursor.rows[1][2] \notin {BaseType(backend), "VIEW"}
  /\ <<cursor.rows[1][2], DictGet(DictGet(ret, "tables")[1], "object_type")>>
       \in LowerCased
  /\ DictGet(DictGet(ret, "tables")[2], "object_type") = "table"

\* Nothing of an invocation is left: every variable a tool body reads or
\* writes has the value it has when the module was loaded.
NothingLeft ==
  /\ acquired = 0 /\ txFailed = FALSE /\ sent = <<>> /\ stage = "main"
  /\ cursor = NoCursor /\ rows = <<>> /\ extra = <<>> /\ idx = 1
  /\ row_count = NA /\ size = NA /\ ret = <<>> /\ outcome = "none"
  /\ exc = NoExc

\* C21: invocations are stateless across calls.  Whatever invocations came
\* before (ended by a return or by an exception, of any tool), the server
\* waits for a call in the state it was loaded in, but for an idle connection
\* the pool may keep, and that connection is never in the failed state; and
\* an invocation that has just connected is in one and the same state, fixed
\* by its arguments alone: on a connection whose transaction is not failed,
\* with nothing read or computed before.  Its result therefore depends only
\* on its arguments and on what the driver answers during the invocation.
C21_StatelessAcrossCalls ==
  /\ pc = "idle" =>
       /\ NothingLeft
       /\ held = 0 /\ conn = 0
       /\ pooled \in {"none", "clean"}
  /\ pc = "connect" =>
       /\ NothingLeft
       /\ held = 0 /\ conn = 0
       /\ pooled \in {"none", "clean"}
  /\ (pc = "exec" /\ sent = <<>>) =>
       /\ acquired = 1 /\ held = 1 /\ conn # 0
       /\ txFailed = FALSE
       /\ pooled = "none"
       /\ stage = "main" /\ cursor = NoCursor /\ rows = <<>> /\ extra = <<>>
       /\ idx = 1 /\ row_count = NA /\ size = NA /\ ret = <<>>
       /\ outcome = "none" /\ exc = NoExc

C21_Witness ==
  /\ pc = "connect" /\ tool = "list_tables" /\ schema = "s1"
  /\ pooled = "clean"

====
